---- MODULE Spec2Model ----
(***************************************************************************)
(* A model of logtweaks.py: the line-indentation helper indent(), the      *)
(* stateful IndentingLoggerAdapter and the colouring PrettyStreamHandler.  *)
(*                                                                         *)
(* Text is a sequence of one-character strings.  The alphabet holds an     *)
(* ordinary character, the space (the character the indent unit is made    *)
(* of) and the two line-boundary characters "\n" and "\r", so that the     *)
(* three boundaries str.splitlines() tells apart in ASCII text ("\n",      *)
(* "\r" and the two-character "\r\n") all occur.  The remaining boundaries *)
(* of str.splitlines() (\v, \f, \x1c-\x1e, \x85, U+2028, U+2029) are      *)
(* single characters handled exactly like "\n".                            *)
(***************************************************************************)
EXTENDS Integers, Sequences, FiniteSets, TLC

\* ------------------------------------------------------------------ bounds

\* Longest message text drawn as an input.
MaxLen == 3

\* Deepest indentation the callers of the model reach (indent() itself has
\* no upper bound).
MaxDepth == 2

\* Threads that each call indent() or outdent() once on one adapter.
NThreads == 2

\* ------------------------------------------------------------------ state

VARIABLES
    level,      \* level[a]: the attribute _indent_level of adapter a
    msg,        \* the message text the caller logs (an input)
    last,       \* the most recent call on an adapter: its arguments, the
                \* level it found (before), what it returned or raised
    trace       \* trace[a]: how far the calls made on a so far follow
                \* "n times indent(), then k <= n times outdent()"

adapterVars == <<level, msg, last, trace>>

VARIABLES
    handler,    \* the PrettyStreamHandler: the arguments it was constructed
                \* with, its attributes stream and colour
    stderrTty,  \* whether sys.stderr is attached to a terminal ("True"/"False")
    levelno,    \* record.levelno of the record that is formatted (an input)
    formatted   \* what the most recent format(record) returned

handlerVars == <<handler, stderrTty, levelno, formatted>>

VARIABLES
    calls,      \* calls[t]: the method thread t calls
    serialized, \* whether the callers hold a lock of their own around a call
    lock,       \* the callers' lock: 0 when free, else the thread holding it
    order,      \* the threads in the order they took the callers' lock
    pc,         \* pc[t]: where thread t is in its call
    tmp         \* tmp[t]: the value of _indent_level thread t has read

raceVars == <<calls, serialized, lock, order, pc, tmp>>

vars == <<adapterVars, handlerVars, raceVars>>

\* ------------------------------------------------------------------- text

Chars == {"a", " ", "\n", "\r"}

\* All texts of length at most n.
RECURSIVE TextsUpTo(_)
TextsUpTo(n) ==
    IF n = 0 THEN {<< >>}
    ELSE LET shorter == TextsUpTo(n - 1)
         IN  shorter \cup {Append(t, c) : t \in {s \in shorter : Len(s) = n - 1}, c \in Chars}

Msgs == TextsUpTo(MaxLen)

\* The characters str.splitlines() ends a line at.
IsLineBreak(c) == c \in {"\n", "\r"}

\* Index of the first line-boundary character of s at or after i, or
\* Len(s) + 1 when there is none.
RECURSIVE FindBreak(_, _)
FindBreak(s, i) ==
    IF i > Len(s) THEN Len(s) + 1
    ELSE IF IsLineBreak(s[i]) THEN i
    ELSE FindBreak(s, i + 1)

\* Index one past the end of the line of s that starts at i, its line break
\* included: "\r\n" is consumed as one boundary.
LineEnd(s, i) ==
    LET j == FindBreak(s, i)
    IN  IF j > Len(s) THEN j
        ELSE IF s[j] = "\r" /\ j + 1 <= Len(s) /\ s[j + 1] = "\n" THEN j + 2
        ELSE j + 1

\* data.splitlines(True): the lines of s from index i on, each with its
\* line break kept; the empty text has no lines.
RECURSIVE SplitLinesFrom(_, _)
SplitLinesFrom(s, i) ==
    IF i > Len(s) THEN << >>
    ELSE LET e == LineEnd(s, i)
         IN  <<SubSeq(s, i, e - 1)>> \o SplitLinesFrom(s, e)

SplitLines(s) == SplitLinesFrom(s, 1)

\* string * amount
RECURSIVE Repeat(_, _)
Repeat(string, amount) ==
    IF amount <= 0 THEN << >> ELSE string \o Repeat(string, amount - 1)

\* ''.join(parts)
RECURSIVE Join(_)
Join(parts) ==
    IF parts = << >> THEN << >> ELSE Head(parts) \o Join(Tail(parts))

\* The default of indent()'s parameter string: two spaces.
IndentUnit == <<" ", " ">>

\* indent() that prefixes the text as a whole, not each of its lines.
indentWhole(data, amount, string) == Repeat(string, amount) \o data

\* indent(data, amount, string)
indent(data, amount, string) ==
    LET lines == SplitLines(data)
    IN  Join([k \in 1..Len(lines) |-> Repeat(string, amount) \o lines[k]])

\* ---------------------------------------------------------------- adapter

\* Two IndentingLoggerAdapter instances wrapping the same logger.
Adapters == {"a1", "a2"}

\* The keyword options of a log call.
Kwargs == {{}, {"exc_info"}}

\* IndentingLoggerAdapter.__init__: self._indent_level = 0
NewLevel == 0

\* A slip of "+= 1" into "= +1": the level is set, not raised.
IncLevelAssign(l) == 1

\* self._indent_level += 1
IncLevel(l) == l + 1

\* outdent() without the floor of 0.
DecLevelUnclamped(l) == l - 1

\* outdent() that drops all indentation at once.
DecLevelReset(l) == 0

\* self._indent_level = max(0, self._indent_level - 1)
DecLevel(l) == IF l - 1 > 0 THEN l - 1 ELSE 0

\* The call pattern after one more indent().
TraceIndent(t) ==
    IF t.shape = "up" THEN [t EXCEPT !.n = @ + 1]
    ELSE [shape |-> "off", n |-> 0, k |-> 0]

\* The call pattern after one more outdent().
TraceOutdent(t) ==
    IF t.shape \in {"up", "down"} /\ t.k < t.n
    THEN [shape |-> "down", n |-> t.n, k |-> t.k + 1]
    ELSE [shape |-> "off", n |-> 0, k |-> 0]

InitAdapters ==
    /\ level = [a \in Adapters |-> NewLevel]
    /\ last = [op |-> "none"]
    /\ trace = [a \in Adapters |-> [shape |-> "up", n |-> 0, k |-> 0]]

\* indent() on a level kept on the class: every adapter follows.
IndentShared(a) ==
    /\ level[a] < MaxDepth
    /\ level' = [b \in Adapters |-> IncLevel(level[a])]
    /\ last' = [op |-> "indent", self |-> a, exc |-> "None", before |-> level[a]]
    /\ trace' = [trace EXCEPT ![a] = TraceIndent(@)]
    /\ UNCHANGED <<msg, handlerVars, raceVars>>

\* a.indent()
Indent(a) ==
    /\ level[a] < MaxDepth
    /\ level' = [level EXCEPT ![a] = IncLevel(@)]
    /\ last' = [op |-> "indent", self |-> a, exc |-> "None", before |-> level[a]]
    /\ trace' = [trace EXCEPT ![a] = TraceIndent(@)]
    /\ UNCHANGED <<msg, handlerVars, raceVars>>

\* a.outdent()
Outdent(a) ==
    /\ level' = [level EXCEPT ![a] = DecLevel(@)]
    /\ last' = [op |-> "outdent", self |-> a, exc |-> "None", before |-> level[a]]
    /\ trace' = [trace EXCEPT ![a] = TraceOutdent(@)]
    /\ UNCHANGED <<msg, handlerVars, raceVars>>

\* a.process(msg, kwargs)
Process(a, kwargs) ==
    /\ last' = [op |-> "process", self |-> a, exc |-> "None",
                kwargs |-> kwargs,
                ret |-> <<indent(msg, level[a], IndentUnit), kwargs>>]
    /\ UNCHANGED <<level, msg, trace, handlerVars, raceVars>>

\* ---------------------------------------------------------------- handler

\* logging's severity levels that COLOURS names.
DEBUG == 10
WARNING == 30
ERROR == 40
CRITICAL == 50

\* Level numbers a record can carry: NOTSET, DEBUG, INFO, a level added by
\* the application, WARNING, ERROR, CRITICAL.
LevelNos == {0, DEBUG, 20, 25, WARNING, ERROR, CRITICAL}

\* PrettyStreamHandler.COLOURS; an escape sequence is one element of a text.
COLOURS ==
    [l \in {DEBUG, WARNING, ERROR, CRITICAL} |->
        CASE l = DEBUG -> <<"ESC[36m">>
          [] l = WARNING -> <<"ESC[33m">>
          [] l = ERROR -> <<"ESC[31m">>
          [] l = CRITICAL -> <<"ESC[31;7m">>]

\* PrettyStreamHandler.COLOUR_END
COLOUR_END == <<"ESC[0m">>

\* self.COLOURS.get(levelno, '')
ColoursGet(l) == IF l \in DOMAIN COLOURS THEN COLOURS[l] ELSE << >>

\* logging.getLevelName(levelno), left-justified in 8 columns.
LevelName(l) ==
    CASE l = DEBUG -> "DEBUG   "
      [] l = 20 -> "INFO    "
      [] l = WARNING -> "WARNING "
      [] l = ERROR -> "ERROR   "
      [] l = CRITICAL -> "CRITICAL"
      [] l = 0 -> "NOTSET  "
      [] OTHER -> "Level 25"

\* super().format(record) with the formatter of the class's example,
\* '[%(levelname)-8s] %(message)s'; the level name is one element of the text.
BaseFormat(l, text) == <<"[", LevelName(l), "]", " ">> \o text

\* The stream argument of the constructor: None, a terminal, a file that is
\* not a terminal, or a sink that only has write() and no isatty().
StreamArgs == {"None", "tty", "file", "bare"}

\* The colour argument of the constructor.
ColourArgs == {"None", "True", "False"}

\* logging.StreamHandler.__init__: stream None stands for sys.stderr.
StreamOf(stream) == IF stream = "None" THEN "stderr" ELSE stream

\* Whether the stream object has the method isatty.
HasIsatty(stream) == stream # "bare"

\* stream.isatty()
Isatty(stream) ==
    CASE stream = "tty" -> "True"
      [] stream = "file" -> "False"
      [] stream = "stderr" -> stderrTty

\* The truth value of self.colour in "if self.colour".
Truthy(v) == v = "True"

\* A constructor that asks the stream even when an override is given.
init_handler_detect(stream, colour) ==
    LET st == StreamOf(stream)
    IN  IF HasIsatty(st)
        THEN [state |-> "ready", stream |-> st, colour |-> Isatty(st),
              exc |-> "None", arg_stream |-> stream, arg_colour |-> colour]
        ELSE [state |-> "ready", stream |-> st, colour |-> "False",
              exc |-> "None", arg_stream |-> stream, arg_colour |-> colour]

\* PrettyStreamHandler.__init__: the handler it leaves, or the exception
\* that self.stream.isatty() raises.
init_handler(stream, colour) ==
    LET st == StreamOf(stream)
    IN  IF colour = "None"
        THEN IF HasIsatty(st)
             THEN [state |-> "ready", stream |-> st, colour |-> Isatty(st),
                   exc |-> "None", arg_stream |-> stream, arg_colour |-> colour]
             ELSE [state |-> "failed", stream |-> st, colour |-> "unset",
                   exc |-> "AttributeError", arg_stream |-> stream, arg_colour |-> colour]
        ELSE [state |-> "ready", stream |-> st, colour |-> colour,
              exc |-> "None", arg_stream |-> stream, arg_colour |-> colour]

\* format() that leaves a record of an unmapped level untouched.
formatMappedOnly(c, l, text) ==
    LET m == BaseFormat(l, text)
    IN  IF Truthy(c) /\ l \in DOMAIN COLOURS
        THEN COLOURS[l] \o m \o COLOUR_END ELSE m

\* format() that never looks at self.colour.
formatAlways(c, l, text) == ColoursGet(l) \o BaseFormat(l, text) \o COLOUR_END

\* PrettyStreamHandler.format: the text returned for a record of level l
\* whose message is text, by a handler whose attribute colour is c.
format(c, l, text) ==
    LET m == BaseFormat(l, text)
    IN  IF Truthy(c) THEN ColoursGet(l) \o m \o COLOUR_END ELSE m

NoHandler ==
    [state |-> "new", stream |-> "unset", colour |-> "unset", exc |-> "None",
     arg_stream |-> "unset", arg_colour |-> "unset"]

InitHandler ==
    /\ handler = NoHandler
    /\ formatted = [called |-> FALSE]

\* PrettyStreamHandler(stream, colour)
Construct(stream, colour) ==
    /\ handler.state = "new"
    /\ handler' = init_handler(stream, colour)
    /\ UNCHANGED <<stderrTty, levelno, formatted, adapterVars, raceVars>>

\* handler.format(record)
Format ==
    /\ handler.state = "ready"
    /\ formatted' = [called |-> TRUE, ret |-> format(handler.colour, levelno, msg)]
    /\ UNCHANGED <<handler, stderrTty, levelno, adapterVars, raceVars>>

\* ------------------------------------------------------------ concurrency

Threads == 1..NThreads

Shared == "a1"

InitRace ==
    /\ calls \in [Threads -> {"indent", "outdent"}]
    /\ serialized \in BOOLEAN
    /\ lock = 0
    /\ order = << >>
    /\ pc = [t \in Threads |-> "start"]
    /\ tmp = [t \in Threads |-> 0]

\* Thread t enters its call; callers that serialize take their lock first.
Call(t) ==
    /\ pc[t] = "start"
    /\ serialized => lock = 0
    /\ lock' = IF serialized THEN t ELSE lock
    /\ order' = IF serialized THEN Append(order, t) ELSE order
    /\ pc' = [pc EXCEPT ![t] = "load"]
    /\ UNCHANGED <<calls, serialized, tmp, adapterVars, handlerVars>>

\* Thread t reads self._indent_level.
Load(t) ==
    /\ pc[t] = "load"
    /\ tmp' = [tmp EXCEPT ![t] = level[Shared]]
    /\ pc' = [pc EXCEPT ![t] = "store"]
    /\ UNCHANGED <<calls, serialized, lock, order, adapterVars, handlerVars>>

\* Thread t stores the new value of self._indent_level and returns.
\* (last and trace describe calls made one after the other and are not
\* kept for calls that overlap.)
Store(t) ==
    /\ pc[t] = "store"
    /\ level' = [level EXCEPT ![Shared] =
                    IF calls[t] = "indent" THEN IncLevel(tmp[t]) ELSE DecLevel(tmp[t])]
    /\ pc' = [pc EXCEPT ![t] = "done"]
    /\ lock' = IF serialized THEN 0 ELSE lock
    /\ UNCHANGED <<calls, serialized, order, tmp, msg, last, trace, handlerVars>>

\* Values the variables of a part of the program keep while it is not run.
IdleHandler ==
    /\ InitHandler
    /\ stderrTty = "False"
    /\ levelno = 20

IdleRace ==
    /\ calls = [t \in Threads |-> "indent"]
    /\ serialized = TRUE
    /\ lock = 0
    /\ order = << >>
    /\ pc = [t \in Threads |-> "done"]
    /\ tmp = [t \in Threads |-> 0]

\* -------------------------------------------------------- specifications

\* Sequential callers of two adapters.
Init ==
    /\ InitAdapters
    /\ msg \in Msgs
    /\ IdleHandler
    /\ IdleRace

Next ==
    \/ \E a \in Adapters : Indent(a)
    \/ \E a \in Adapters : Outdent(a)
    \/ \E a \in Adapters, kwargs \in Kwargs : Process(a, kwargs)

Spec == Init /\ [][Next]_vars

\* One handler: its construction, then format() calls.
InitH ==
    /\ InitAdapters
    /\ msg \in Msgs
    /\ InitHandler
    /\ stderrTty \in {"True", "False"}
    /\ levelno \in LevelNos
    /\ IdleRace

NextH ==
    \/ \E stream \in StreamArgs, colour \in ColourArgs : Construct(stream, colour)
    \/ Format

SpecHandler == InitH /\ [][NextH]_vars

\* Threads calling indent() and outdent() on one adapter.
InitR ==
    /\ InitAdapters
    /\ msg = << >>
    /\ IdleHandler
    /\ InitRace

NextR == \E t \in Threads : Call(t) \/ Load(t) \/ Store(t)

SpecRace == InitR /\ [][NextR]_vars

\* ----------------------------------------------------------------- claims

\* The indices of msg at which a line starts: the first character and every
\* character after a line break ("\r\n" being one line break).
LineStarts(m) ==
    {i \in 1..Len(m) :
        \/ i = 1
        \/ m[i - 1] = "\n"
        \/ m[i - 1] = "\r" /\ m[i] # "\n"}

\* Where character i of m stands in m indented by d two-space units.
Shift(m, i, d) == i + 2 * d * Cardinality({s \in LineStarts(m) : s <= i})

Spaces(n) == [j \in 1..n |-> " "]

\* The level after the calls of the threads in seq, made one after the
\* other from level d.
RECURSIVE ReplayCalls(_, _)
ReplayCalls(seq, d) ==
    IF Len(seq) = 0 THEN d
    ELSE ReplayCalls(Tail(seq),
                     IF calls[Head(seq)] = "indent" THEN d + 1
                     ELSE IF d > 0 THEN d - 1 ELSE 0)

AllDone == \A t \in Threads : pc[t] = "done"

\* C1: on a new adapter, after n calls of indent() and then k <= n calls of
\* outdent() the depth is n - k, so 0 when k = n; and a message processed
\* at any point has, on each of its lines, exactly (current depth) indent
\* units in front of the line's own text.
C1_BalancedCallsAndLinePrefix ==
    \A a \in Adapters :
        /\ trace[a].shape \in {"up", "down"} => level[a] = trace[a].n - trace[a].k
        /\ (last.op = "process" /\ last.self = a) =>
              LET out == last.ret[1]
                  w == 2 * level[a]
              IN  \A s \in LineStarts(msg) :
                      LET at == Shift(msg, s, level[a])
                      IN  /\ at <= Len(out)
                          /\ SubSeq(out, at - w, at - 1) = Spaces(w)
                          /\ out[at] = msg[s]
                          /\ IF s = 1 THEN at - w = 1
                             ELSE out[at - w - 1] = msg[s - 1]

\* C1's case: two indent(), two outdent(), then a message of several lines.
C1_Witness ==
    \E a \in Adapters :
        /\ trace[a] = [shape |-> "down", n |-> 2, k |-> 2]
        /\ level[a] = 0
        /\ last.op = "process" /\ last.self = a
        /\ Cardinality(LineStarts(msg)) >= 2

\* C2: the depth starts at 0 and is a natural number in every state, and
\* outdent() at depth 0 leaves it at 0 and raises nothing.
C2_DepthNeverNegative ==
    /\ \A a \in Adapters : level[a] \in Nat
    /\ last.op = "none" => \A a \in Adapters : level[a] = 0
    /\ (last.op = "outdent" /\ last.before = 0) =>
          level[last.self] = 0 /\ last.exc = "None"

\* C2's case: outdent() was called at depth 0.
C2_Witness ==
    /\ last.op = "outdent"
    /\ last.before = 0
    /\ level[last.self] = 0

\* C3: process() returns the message with exactly depth two-space units
\* inserted at the start of each line, every character and line break of
\* the message kept in place, and the call's options as given; at depth 0
\* the message comes back unchanged.
C3_ProcessIndentsEachLine ==
    last.op = "process" =>
        LET d == level[last.self]
            out == last.ret[1]
        IN  /\ Len(out) = Len(msg) + 2 * d * Cardinality(LineStarts(msg))
            /\ \A i \in 1..Len(msg) : out[Shift(msg, i, d)] = msg[i]
            /\ \A s \in LineStarts(msg) :
                   \A j \in 1..(2 * d) : out[Shift(msg, s, d) - j] = " "
            /\ last.ret[2] = last.kwargs
            /\ d = 0 => out = msg
            /\ (d = 1 /\ msg = <<"a", "\n", "a">>) =>
                   out = <<" ", " ", "a", "\n", " ", " ", "a">>

\* C3's case: a two-line message processed at depth 2 with an option set.
C3_Witness ==
    /\ last.op = "process"
    /\ level[last.self] = 2
    /\ msg = <<"a", "\n", "a">>
    /\ last.kwargs = {"exc_info"}

\* C4: with colour enabled, format(record) is the level's colour code (none
\* for a level COLOURS does not name), the base text, then the reset code.
C4_ColouredFormat ==
    (formatted.called /\ handler.colour = "True") =>
        formatted.ret =
            (CASE levelno = 10 -> <<"ESC[36m">>
               [] levelno = 30 -> <<"ESC[33m">>
               [] levelno = 40 -> <<"ESC[31m">>
               [] levelno = 50 -> <<"ESC[31;7m">>
               [] OTHER -> << >>)
            \o BaseFormat(levelno, msg) \o <<"ESC[0m">>

\* C4's case: an INFO record, which has no colour, formatted with colour on.
C4_Witness ==
    /\ formatted.called
    /\ handler.colour = "True"
    /\ levelno = 20
    /\ msg # << >>

\* C5: with colour disabled, format(record) is the base text and no more.
C5_PlainFormat ==
    (formatted.called /\ handler.colour = "False") =>
        formatted.ret = BaseFormat(levelno, msg)

\* C5's case: an ERROR record formatted by a handler that found its stream
\* not to be a terminal.
C5_Witness ==
    /\ formatted.called
    /\ handler.arg_colour = "None"
    /\ handler.arg_stream = "file"
    /\ handler.colour = "False"
    /\ levelno = 40

\* C6: once constructed, and whatever was formatted since, the colour flag
\* is the override when one was given, else whether the stream was a
\* terminal.
C6_ColourFlagFixed ==
    handler.state = "ready" =>
        handler.colour =
            IF handler.arg_colour \in {"True", "False"} THEN handler.arg_colour
            ELSE CASE handler.arg_stream = "tty" -> "True"
                   [] handler.arg_stream = "file" -> "False"
                   [] handler.arg_stream = "None" -> stderrTty
                   [] OTHER -> "undefined"

\* C6's case: colour forced on for a stream that is not a terminal, after a
\* format() call.
C6_Witness ==
    /\ formatted.called
    /\ handler.arg_colour = "True"
    /\ handler.arg_stream = "file"
    /\ handler.colour = "True"

\* C7: constructing the handler without an override on a sink that has no
\* isatty() succeeds and leaves colour disabled.
C7_BareSinkConstructs ==
    (handler.state # "new" /\ handler.arg_colour = "None"
                           /\ handler.arg_stream = "bare") =>
        handler.state = "ready" /\ handler.colour = "False"

\* C8: a step changes the depth of an adapter only when it is indent() or
\* outdent() on that adapter; process() and calls on other adapters do not.
C8_DepthFrame ==
    [][\A a \in Adapters :
          level'[a] # level[a] =>
              last'.op \in {"indent", "outdent"} /\ last'.self = a]_vars

\* C8's case: process() ran on one adapter while the two are at different
\* depths.
C8_Witness ==
    /\ last.op = "process"
    /\ last.self = "a1"
    /\ level["a1"] = 1
    /\ level["a2"] = 2

\* C9: when the callers serialize their calls, the depth after all of them
\* is the depth the calls give one after the other, in the order made.
C9_SerializedCallsSequential ==
    (AllDone /\ serialized) => level[Shared] = ReplayCalls(order, 0)

\* C9's case: two unserialized indent() from depth 0 have both returned and
\* the depth is 1, which no order of the calls gives.
C9_Witness ==
    /\ AllDone
    /\ ~serialized
    /\ \A t \in {1, 2} : calls[t] = "indent"
    /\ level[Shared] < Cardinality({t \in Threads : calls[t] = "indent"})
    /\ level[Shared] \notin {ReplayCalls(p, 0) : p \in Permutations(Threads)}

\* C10: at depth d > 0 the text process() returns starts with d indent
\* units, whatever the message.
C10_EveryMessagePrefixed ==
    (last.op = "process" /\ level[last.self] > 0) =>
        LET out == last.ret[1]
            w == 2 * level[last.self]
        IN  Len(out) >= w /\ SubSeq(out, 1, w) = Spaces(w)

====
